---------------------------- MODULE Spec2Model ----------------------------
(***************************************************************************)
(* Model of app.py, the Streamlit SEO dashboard.                           *)
(*                                                                         *)
(* Streamlit runs the whole script once per user interaction.  What lives  *)
(* between two runs is st.session_state (the login flag and the widget     *)
(* values) and the st.cache_data entry of load_data.  One action of the    *)
(* model is one interaction: the widget's callback, if it has one, and     *)
(* then the complete rerun of the script.                                  *)
(*                                                                         *)
(* Charts (plotly figures, the 'Tendencia' sparkline, tab 1 metrics) are   *)
(* write-only presentation: they read the tables modelled here and nothing *)
(* reads them back, so they are left out.                                  *)
(***************************************************************************)
EXTENDS Integers, Sequences, FiniteSets, TLC

(***************************************************************************)
(* Bounds of the model.                                                    *)
(***************************************************************************)
MaxRows == 2        \* rows of rankings_historico
MaxFecha == 2       \* calendar dates are 1 .. MaxFecha
MaxPos == 101       \* positions explored by the bucketing specification

(***************************************************************************)
(* Helpers on sequences.                                                   *)
(***************************************************************************)
Range(s) == {s[i] : i \in 1..Len(s)}

Idx(s) == 1..Len(s)

\* the rows of s whose flag in the boolean series m is set: df[mask]
Select(s, m) ==
  LET F[i \in 0..Len(s)] ==
        IF i = 0 THEN <<>>
        ELSE IF m[i] THEN Append(F[i-1], s[i]) ELSE F[i-1]
  IN F[Len(s)]

\* series & series
MaskAnd(a, b) == [i \in Idx(a) |-> a[i] /\ b[i]]

\* pd.Series(True, index=df.index)
AllTrue(df_) == [i \in Idx(df_) |-> TRUE]

SeqMax(S) == CHOOSE x \in S : \A y \in S : y <= x

SeqMin(S) == CHOOSE x \in S : \A y \in S : x <= y

\* sorted(...) of a set of integers
SortedInts(S) ==
  LET F[T \in SUBSET S] ==
        IF T = {} THEN <<>> ELSE LET m == SeqMin(T) IN <<m>> \o F[T \ {m}]
  IN F[S]

(***************************************************************************)
(* Values of the data.                                                     *)
(***************************************************************************)
\* the label the multiselects show for "no category" (lines 141-150)
SinCategoria == "(Sin Categoría)"

\* Python's order of the category names that occur (code point order:
\* "(" sorts before the capitals); sorted() of line 148 follows it
CatOrder == <<"(Sin Categoría)", "A", "P", "Q", "X">>

\* sorted(set of category names)
SortedCats(S) == SelectSeq(CatOrder, LAMBDA v : v \in S)

\* a database NULL is <<>>, a value v is <<v>>
Null == <<>>

\* pd.to_datetime of a calendar date is midnight of that day; a timestamp
\* counts hours
HoursPerDay == 24

to_datetime(d) == d * HoursPerDay

\* Timestamp.date() / Series.dt.date
dt_date(ts) == ts \div HoursPerDay

\* df[col].fillna("")
fillna(v) == IF v = Null THEN "" ELSE v[1]

(***************************************************************************)
(* clasificar_rango, lines 81-87.  A position is <<>> (NaN) or <<p>>.      *)
(***************************************************************************)
clasificar_rango_lt(pos) ==
  IF pos = Null THEN "> 100"
  ELSE IF pos[1] < 3 THEN "TOP 1-3"
  ELSE IF pos[1] < 10 THEN "TOP 4-10"
  ELSE IF pos[1] < 20 THEN "TOP 11-20"
  ELSE IF pos[1] < 100 THEN "TOP 21-100"
  ELSE "> 100"

clasificar_rango(pos) ==
  IF pos = Null THEN "> 100"
  ELSE IF pos[1] <= 3 THEN "TOP 1-3"
  ELSE IF pos[1] <= 10 THEN "TOP 4-10"
  ELSE IF pos[1] <= 20 THEN "TOP 11-20"
  ELSE IF pos[1] <= 100 THEN "TOP 21-100"
  ELSE "> 100"

\* the rows of the statistics table, line 212
orden_rangos == <<"TOP 1-3", "TOP 4-10", "TOP 11-20", "TOP 21-100">>

\* the five buckets clasificar_rango can return
Buckets == {"TOP 1-3", "TOP 4-10", "TOP 11-20", "TOP 21-100", "> 100"}

(***************************************************************************)
(* get_mask, lines 137-145.  df_target is the table, n the level whose     *)
(* column categoria_n is read, selection_list the multiselect's value.     *)
(* A multiselect returns distinct options and get_mask reads its value     *)
(* only through "in" and emptiness, so the list is held as a set.          *)
(***************************************************************************)
get_mask_empty_none(df_target, n, selection_list) ==
  LET query_vals == {x \in selection_list : x # SinCategoria}
      include_blanks == SinCategoria \in selection_list
  IN [i \in Idx(df_target) |->
        \/ df_target[i].categoria[n] \in query_vals
        \/ include_blanks /\ df_target[i].categoria[n] = ""]

get_mask(df_target, n, selection_list) ==
  IF selection_list = {} THEN AllTrue(df_target)
  ELSE
    LET query_vals == {x \in selection_list : x # SinCategoria}
        include_blanks == SinCategoria \in selection_list
        mask_vals == [i \in Idx(df_target) |->
                        df_target[i].categoria[n] \in query_vals]
        mask_blanks == IF include_blanks
                       THEN [i \in Idx(df_target) |->
                               df_target[i].categoria[n] = ""]
                       ELSE [i \in Idx(df_target) |-> FALSE]
    IN [i \in Idx(df_target) |-> mask_vals[i] \/ mask_blanks[i]]

(***************************************************************************)
(* The option list of one level, lines 148-150, 155-158, 164-167, 173-176. *)
(* df_l is the table already cut by the masks of the levels above.         *)
(***************************************************************************)
opts_raw(df_l, n) ==
  SortedCats({df_l[i].categoria[n] : i \in Idx(df_l)} \ {""})

has_empty(df_l, n) == "" \in {df_l[i].categoria[n] : i \in Idx(df_l)}

opts_display(df_l, n) ==
  opts_raw(df_l, n) \o (IF has_empty(df_l, n) THEN <<SinCategoria>> ELSE <<>>)

(***************************************************************************)
(* JSON values of detalle_canibalizacion.                                  *)
(*   item    [kind, keys, pos, url]   kind "dict": an object holding the   *)
(*           members named in keys; kind "num": a bare number              *)
(*   doc     [kind, keys, data]       kind "dict": an object, data its     *)
(*           'data' member when "data" \in keys; kind "list": an array     *)
(*   payload [py, doc, text]          what the driver hands over: None, a  *)
(*           dict (json/jsonb column) or a str (text column)               *)
(* A url is the sequence of its pieces, so that str.replace can be done.   *)
(***************************************************************************)
NoItem == [kind |-> "num", keys |-> {}, pos |-> 0, url |-> <<>>]

Item(keys, pos, url) == [kind |-> "dict", keys |-> keys, pos |-> pos, url |-> url]

ItemA == Item({"pos", "url"}, 5, <<"https://", "x.com/a">>)

ItemB == Item({"pos", "url"}, 7, <<"http://", "y.com/b">>)

ItemNoPos == Item({"url"}, 0, <<"x.com/c">>)

ItemNoUrl == Item({"pos"}, 2, <<>>)

Doc(keys, data) == [kind |-> "dict", keys |-> keys, data |-> data]

DocList == [kind |-> "list", keys |-> {}, data |-> <<>>]

DocEmpty == Doc({}, <<>>)

\* the JSON texts json.loads accepts, with the value each parses to
JsonTexts ==
  << <<"{\"data\":[{\"pos\":5,\"url\":\"https://x.com/a\"}]}",
       Doc({"data"}, <<ItemA>>)>>,
     <<"{}", DocEmpty>>,
     <<"[1]", DocList>> >>

PyNone == [py |-> "None", doc |-> DocEmpty, text |-> ""]

PyDict(d) == [py |-> "dict", doc |-> d, text |-> ""]

PyStr(t) == [py |-> "str", doc |-> DocEmpty, text |-> t]

\* the outcome of a piece of Python: a value, or an exception on its way up
Ret(v) == [raised |-> FALSE, value |-> v]

Raise == [raised |-> TRUE, value |-> ""]

\* json.loads: the parsed value, or ValueError on a text that is not JSON
json_loads(text) ==
  IF \E i \in Idx(JsonTexts) : JsonTexts[i][1] = text
  THEN LET i == CHOOSE i \in Idx(JsonTexts) : JsonTexts[i][1] = text
       IN [raised |-> FALSE, doc |-> JsonTexts[i][2]]
  ELSE [raised |-> TRUE, doc |-> DocEmpty]

\* "".join(pieces)
Concat(pieces) ==
  LET F[i \in 0..Len(pieces)] == IF i = 0 THEN "" ELSE F[i-1] \o pieces[i]
  IN F[Len(pieces)]

\* " | ".join(conflictos)
Join(conflictos) ==
  LET F[i \in 0..Len(conflictos)] ==
        IF i = 0 THEN ""
        ELSE IF i = 1 THEN conflictos[1]
        ELSE F[i-1] \o " | " \o conflictos[i]
  IN F[Len(conflictos)]

\* url.replace(scheme, '')
replace(url, scheme) == SelectSeq(url, LAMBDA piece : piece # scheme)

\* lines 334-335, one item of the loop
conflicto_de(item) ==
  LET url_corta == replace(replace(IF "url" \in item.keys THEN item.url ELSE <<>>,
                                   "https://"), "http://")
      pos == IF "pos" \in item.keys THEN ToString(item.pos) ELSE "?"
  IN "Pos " \o pos \o ": " \o Concat(url_corta)

\* lines 328-336, the body of the try
limpiar_try(row) ==
  LET loaded == IF row.py = "dict" THEN [raised |-> FALSE, doc |-> row.doc]
                ELSE json_loads(row.text)
      data == loaded.doc
  IN IF loaded.raised THEN Raise
     ELSE IF data.kind # "dict" THEN Raise         \* data.get: AttributeError
     ELSE LET items == IF "data" \in data.keys THEN data.data ELSE <<>>
          IN IF items = <<>> THEN Ret("")
             ELSE IF \E i \in Idx(items) : items[i].kind # "dict"
                  THEN Raise                       \* item.get: AttributeError
             ELSE Ret(Join([i \in Idx(items) |-> conflicto_de(items[i])]))

\* "not row or row == {}", line 326
row_is_empty(row) ==
  \/ row.py = "None"
  \/ row.py = "str" /\ row.text = ""
  \/ row.py = "dict" /\ row.doc.kind = "dict" /\ row.doc.keys = {}

limpiar_canibalizacion_noexcept(row) ==
  IF row_is_empty(row) THEN Ret("") ELSE limpiar_try(row)

\* limpiar_canibalizacion, lines 325-338
limpiar_canibalizacion(row) ==
  IF row_is_empty(row) THEN Ret("")
  ELSE LET r == limpiar_try(row)
       IN IF r.raised THEN Ret("Error formato") ELSE r

(***************************************************************************)
(* State.                                                                  *)
(***************************************************************************)
VARIABLES
  db,               \* what the query of lines 57-61 returns, rows by fecha
  cache,            \* the st.cache_data entry of load_data: <<>> or <<entry>>
  session_state,    \* st.session_state: password_correct, password_input
  sel,              \* value of the four multiselects, level -> set
  d_range_input,    \* value of the date_input; <<>> while it holds its default
  show_conflict,    \* value of the checkbox of line 130
  submitted,        \* <<p>>: the last interaction submitted password p
  screen,           \* where the last run of the script ended
  load,             \* load_data in the last run: reached, failed, queries
  df,               \* the table the last run worked on
  opts,             \* opts_N_display of the last run, level -> list
  mask,             \* mask_N of the last run, level -> boolean series
  d_range,          \* d_range of the last run
  filtered_df,      \* filtered_df of the last run, with its 'rango' column
  datos_tabla,      \* the statistics table of the last run
  conflicto         \* the 'Conflicto Detectado' column of the last run

vars == <<db, cache, session_state, sel, d_range_input, show_conflict,
          submitted, screen, load, df, opts, mask, d_range, filtered_df,
          datos_tabla, conflicto>>

Levels == 1..4

\* st.secrets["DASHBOARD_PASS"] and what a user may type
DASHBOARD_PASS == "clave"

Passwords == {"clave", "otra", "mal"}

NoSel == [n \in Levels |-> {}]

NoOpts == [n \in Levels |-> <<>>]

(***************************************************************************)
(* load_data, lines 45-75: the body of the try on a query that succeeds.   *)
(***************************************************************************)
load_data_rows(rows) ==
  [i \in Idx(rows) |->
     [fecha |-> to_datetime(rows[i].fecha),
      keyword |-> rows[i].keyword,
      posicion |-> rows[i].posicion,
      categoria |-> [n \in Levels |-> fillna(rows[i].categoria[n])],
      es_canibalizacion |-> rows[i].es_canibalizacion,
      detalle_canibalizacion |-> rows[i].detalle_canibalizacion]]

load_data_propagates(rows, fails) ==
  IF fails THEN [failed |-> TRUE, raised |-> TRUE, df |-> <<>>]
  ELSE [failed |-> FALSE, raised |-> FALSE, df |-> load_data_rows(rows)]

\* load_data: the cache entry it produces.  fails: the query (or a secret's
\* lookup) raises, the except of line 73 returns an empty DataFrame
load_data(rows, fails) ==
  IF fails THEN [failed |-> TRUE, raised |-> FALSE, df |-> <<>>]
  ELSE [failed |-> FALSE, raised |-> FALSE, df |-> load_data_rows(rows)]

(***************************************************************************)
(* Tab 2 of one run, lines 122-358, on a table that is not empty.          *)
(* A multiselect without key is identified by its arguments: when its      *)
(* option list differs from the one of the run before, it is a new widget  *)
(* and returns its default, the empty selection.                           *)
(***************************************************************************)
widget_value(n, new_opts, w_sel) == IF new_opts = opts[n] THEN w_sel[n] ELSE {}

\* the date mask, lines 183-187
date_mask_exclusive_end(df_, dr) ==
  IF Len(dr) = 2
  THEN [i \in Idx(df_) |-> dt_date(df_[i].fecha) >= dr[1]
                           /\ dt_date(df_[i].fecha) < dr[2]]
  ELSE AllTrue(df_)

date_mask(df_, dr) ==
  IF Len(dr) = 2
  THEN [i \in Idx(df_) |-> dt_date(df_[i].fecha) >= dr[1]
                           /\ dt_date(df_[i].fecha) <= dr[2]]
  ELSE AllTrue(df_)

\* the product of the four masks, line 189
category_mask_three(m) == MaskAnd(MaskAnd(m[1], m[2]), m[3])

category_mask(m) == MaskAnd(MaskAnd(MaskAnd(m[1], m[2]), m[3]), m[4])

\* lines 183-190
final_mask(df_, dr, m, show) ==
  LET fm == MaskAnd(date_mask(df_, dr), category_mask(m))
  IN IF show THEN [i \in Idx(df_) |-> fm[i] /\ df_[i].es_canibalizacion = TRUE]
     ELSE fm

\* line 203: the 'rango' column
with_rango(rows) ==
  [i \in Idx(rows) |->
     [fecha |-> rows[i].fecha,
      keyword |-> rows[i].keyword,
      posicion |-> rows[i].posicion,
      categoria |-> rows[i].categoria,
      es_canibalizacion |-> rows[i].es_canibalizacion,
      detalle_canibalizacion |-> rows[i].detalle_canibalizacion,
      rango |-> clasificar_rango(rows[i].posicion)]]

\* lines 205-207
fechas_ordenadas(fdf) == SortedInts({fdf[i].fecha : i \in Idx(fdf)})

last_date_filt(fdf) == fechas_ordenadas(fdf)[Len(fechas_ordenadas(fdf))]

fecha_anterior_filt(fdf) ==
  LET f == fechas_ordenadas(fdf)
  IN IF Len(f) > 1 THEN f[Len(f) - 1] ELSE last_date_filt(fdf)

\* df_last_day_filt and df_prev_day_filt, lines 209-210
df_del_dia(fdf, fecha) ==
  Select(fdf, [i \in Idx(fdf) |-> fdf[i].fecha = fecha])

\* set(df_day[df_day['rango'] == rango]['keyword']), lines 240-241
kw_del_dia(df_day, rango) ==
  {df_day[i].keyword : i \in {j \in Idx(df_day) : df_day[j].rango = rango}}

\* one row of datos_tabla, lines 238-252 (the label without its bullet)
fila_tabla_sin_resta(df_last_day_filt, df_prev_day_filt, rango) ==
  LET kw_hoy == kw_del_dia(df_last_day_filt, rango)
      kw_ayer == kw_del_dia(df_prev_day_filt, rango)
      nuevas == Cardinality(kw_hoy)
      perdidas == Cardinality(kw_ayer)
  IN [Rango |-> rango,
      Total |-> Cardinality(kw_hoy),
      Nuevas |-> IF nuevas > 0 THEN "+" \o ToString(nuevas) ELSE "0",
      Perdidas |-> IF perdidas > 0 THEN "-" \o ToString(perdidas) ELSE "0"]

fila_tabla(df_last_day_filt, df_prev_day_filt, rango) ==
  LET kw_hoy == kw_del_dia(df_last_day_filt, rango)
      kw_ayer == kw_del_dia(df_prev_day_filt, rango)
      nuevas == Cardinality(kw_hoy \ kw_ayer)
      perdidas == Cardinality(kw_ayer \ kw_hoy)
  IN [Rango |-> rango,
      Total |-> Cardinality(kw_hoy),
      Nuevas |-> IF nuevas > 0 THEN "+" \o ToString(nuevas) ELSE "0",
      Perdidas |-> IF perdidas > 0 THEN "-" \o ToString(perdidas) ELSE "0"]

\* datos_tabla, lines 205-252
tabla_de(fdf) ==
  LET df_last_day_filt == df_del_dia(fdf, last_date_filt(fdf))
      df_prev_day_filt == df_del_dia(fdf, fecha_anterior_filt(fdf))
  IN [j \in Idx(orden_rangos) |->
        fila_tabla(df_last_day_filt, df_prev_day_filt, orden_rangos[j])]

\* tabla_final['detalle_canibalizacion'].apply(limpiar_canibalizacion),
\* line 344: an exception of one call ends the apply, and the run
apply_limpiar(fdf) ==
  LET col == [i \in Idx(fdf) |-> limpiar_canibalizacion(fdf[i].detalle_canibalizacion)]
  IN IF \E i \in Idx(fdf) : col[i].raised THEN Raise
     ELSE [raised |-> FALSE, value |-> [i \in Idx(fdf) |-> col[i].value]]

\* what a run that does not reach tab 2 leaves of it (widgets a run does
\* not render lose their value)
NoTab2 ==
  [sel |-> NoSel, d_range_input |-> <<>>, show_conflict |-> FALSE,
   opts |-> NoOpts, mask |-> NoOpts, d_range |-> <<>>, filtered_df |-> <<>>,
   datos_tabla |-> <<>>, conflicto |-> <<>>, screen |-> "no_data_loaded"]

\* lines 122-358
Tab2(df_, w_sel, w_dr, w_show) ==
  LET fechas == {df_[i].fecha : i \in Idx(df_)}
      min_d == dt_date(SeqMin(fechas))
      max_d == dt_date(SeqMax(fechas))
      dr == IF w_dr = <<>> THEN <<min_d, max_d>> ELSE w_dr
      \* --- NIVEL 1 ---
      opts_1 == opts_display(df_, 1)
      sel_1 == widget_value(1, opts_1, w_sel)
      mask_1 == get_mask(df_, 1, sel_1)
      \* --- NIVEL 2 ---
      df_l2 == Select(df_, mask_1)
      opts_2 == opts_display(df_l2, 2)
      sel_2 == widget_value(2, opts_2, w_sel)
      mask_2 == get_mask(df_, 2, sel_2)
      \* --- NIVEL 3 ---
      df_l3 == Select(df_, MaskAnd(mask_1, mask_2))
      opts_3 == opts_display(df_l3, 3)
      sel_3 == widget_value(3, opts_3, w_sel)
      mask_3 == get_mask(df_, 3, sel_3)
      \* --- NIVEL 4 ---
      df_l4 == Select(df_, MaskAnd(MaskAnd(mask_1, mask_2), mask_3))
      opts_4 == opts_display(df_l4, 4)
      sel_4 == widget_value(4, opts_4, w_sel)
      mask_4 == get_mask(df_, 4, sel_4)
      m == <<mask_1, mask_2, mask_3, mask_4>>
      fdf == with_rango(Select(df_, final_mask(df_, dr, m, w_show)))
      col == IF w_show /\ fdf # <<>> THEN apply_limpiar(fdf)
             ELSE [raised |-> FALSE, value |-> <<>>]
  IN [sel |-> <<sel_1, sel_2, sel_3, sel_4>>,
      d_range_input |-> w_dr,
      show_conflict |-> w_show,
      opts |-> <<opts_1, opts_2, opts_3, opts_4>>,
      mask |-> m,
      d_range |-> dr,
      filtered_df |-> fdf,
      datos_tabla |-> IF fdf = <<>> THEN <<>> ELSE tabla_de(fdf),
      conflicto |-> col.value,
      screen |-> IF fdf = <<>> THEN "no_data_combo"
                 ELSE IF col.raised THEN "exception"
                 ELSE "results"]

(***************************************************************************)
(* check_password, lines 13-27, on the session state ss.                   *)
(***************************************************************************)
check_password_state(ss) ==
  LET ss1 == IF "password_correct" \in DOMAIN ss THEN ss
             ELSE ("password_correct" :> FALSE) @@ ss
  IN IF ss1["password_correct"] THEN ss1
     ELSE IF "password_input" \in DOMAIN ss1 THEN ss1
     ELSE ("password_input" :> "") @@ ss1      \* the text_input registers its key

check_password(ss) == check_password_state(ss)["password_correct"]

(***************************************************************************)
(* password_entered, lines 29-35: the on_change callback of the text_input *)
(***************************************************************************)
password_entered_any(ss) ==
  [k \in DOMAIN ss \ {"password_input"} |->
     IF k = "password_correct" THEN TRUE ELSE ss[k]]

password_entered(ss) ==
  IF ss["password_input"] = DASHBOARD_PASS
  THEN [k \in DOMAIN ss \ {"password_input"} |->
          IF k = "password_correct" THEN TRUE ELSE ss[k]]
  ELSE ss

(***************************************************************************)
(* One run of the script, lines 37-360.  ss is the session state the run   *)
(* starts with, w_* the widget values, fails whether the database fails    *)
(* should load_data query it in this run, pw the password just submitted.  *)
(***************************************************************************)
NotLoaded == [reached |-> FALSE, failed |-> FALSE, queries |-> 0]

Script(ss, w_sel, w_dr, w_show, fails, pw) ==
  /\ submitted' = pw
  /\ session_state' = check_password_state(ss)
  /\ UNCHANGED db
  /\ IF ~check_password(ss)
     THEN \* st.stop(), line 38
          /\ UNCHANGED cache
          /\ load' = NotLoaded
          /\ df' = <<>>
          /\ sel' = NoTab2.sel
          /\ d_range_input' = NoTab2.d_range_input
          /\ show_conflict' = NoTab2.show_conflict
          /\ opts' = NoTab2.opts
          /\ mask' = NoTab2.mask
          /\ d_range' = NoTab2.d_range
          /\ filtered_df' = NoTab2.filtered_df
          /\ datos_tabla' = NoTab2.datos_tabla
          /\ conflicto' = NoTab2.conflicto
          /\ screen' = "login"
     ELSE \* line 78: the cached entry, or the call of load_data
          \E entry \in {IF cache # <<>> THEN cache[1] ELSE load_data(db, fails)} :
          \E out \in {IF entry.raised \/ entry.df = <<>> THEN NoTab2
                      ELSE Tab2(entry.df, w_sel, w_dr, w_show)} :
             /\ cache' = IF entry.raised THEN cache ELSE <<entry>>
             /\ load' = [reached |-> TRUE, failed |-> entry.failed,
                         queries |-> IF cache # <<>> THEN 0 ELSE 1]
             /\ df' = entry.df
             /\ sel' = out.sel
             /\ d_range_input' = out.d_range_input
             /\ show_conflict' = out.show_conflict
             /\ opts' = out.opts
             /\ mask' = out.mask
             /\ d_range' = out.d_range
             /\ filtered_df' = out.filtered_df
             /\ datos_tabla' = out.datos_tabla
             /\ conflicto' = out.conflicto
             /\ screen' = IF entry.raised THEN "exception" ELSE out.screen

(***************************************************************************)
(* The interactions.  The database can fail only in a run that queries it. *)
(***************************************************************************)
Tab2Screens == {"results", "no_data_combo"}

Outcomes == IF cache = <<>> THEN BOOLEAN ELSE {FALSE}

\* the values a user can give the date_input: one date while the range is
\* being picked, or start <= end
DateInputs ==
  {<<s>> : s \in 1..MaxFecha}
    \cup {r \in (1..MaxFecha) \X (1..MaxFecha) : r[1] <= r[2]}

\* the browser opens the page: the first run of the session
Open ==
  /\ screen = "none"
  /\ \E fails \in Outcomes :
       Script(session_state, sel, d_range_input, show_conflict, fails, <<>>)

\* the user presses "Rerun"
Rerun ==
  /\ screen # "none"
  /\ \E fails \in Outcomes :
       Script(session_state, sel, d_range_input, show_conflict, fails, <<>>)

\* the user submits the text_input: password_entered, then the rerun
SubmitPassword ==
  /\ screen = "login"
  /\ \E p \in Passwords, fails \in Outcomes :
       /\ p # session_state["password_input"]
       /\ Script(password_entered([session_state EXCEPT !["password_input"] = p]),
                 sel, d_range_input, show_conflict, fails, <<p>>)

\* the user changes the multiselect of level n
SetSel(n) ==
  /\ screen \in Tab2Screens
  /\ \E S \in SUBSET Range(opts[n]), fails \in Outcomes :
       /\ S # sel[n]
       /\ Script(session_state, [sel EXCEPT ![n] = S], d_range_input,
                 show_conflict, fails, <<>>)

\* the user changes the date_input
SetDateRange ==
  /\ screen \in Tab2Screens
  /\ \E v \in DateInputs, fails \in Outcomes :
       /\ v # d_range
       /\ Script(session_state, sel, v, show_conflict, fails, <<>>)

\* the user ticks or unticks "Ver solo Canibalizaciones"
ToggleConflict ==
  /\ screen \in Tab2Screens
  /\ \E fails \in Outcomes :
       Script(session_state, sel, d_range_input, ~show_conflict, fails, <<>>)

\* ttl=600 passes: the cache entry of load_data is dropped
CacheExpire ==
  /\ cache # <<>>
  /\ cache' = <<>>
  /\ UNCHANGED <<db, session_state, sel, d_range_input, show_conflict,
                 submitted, screen, load, df, opts, mask, d_range,
                 filtered_df, datos_tabla, conflicto>>

\* every interaction
Next ==
  \/ Open
  \/ Rerun
  \/ SubmitPassword
  \/ \E n \in Levels : SetSel(n)
  \/ SetDateRange
  \/ ToggleConflict
  \/ CacheExpire

\* sessions that use the date filter, the checkbox and the first multiselect
NextFilter ==
  \/ Open
  \/ SubmitPassword
  \/ SetSel(1)
  \/ SetDateRange
  \/ ToggleConflict

\* sessions that only use the category filters
NextMask ==
  \/ Open
  \/ SubmitPassword
  \/ \E n \in Levels : SetSel(n)

\* sessions that only use the date filter
NextStats ==
  \/ Open
  \/ SubmitPassword
  \/ SetDateRange

\* sessions that only log in and rerun
NextRango ==
  \/ Open
  \/ SubmitPassword
  \/ Rerun

\* sessions that only use the checkbox
NextConflict ==
  \/ Open
  \/ SubmitPassword
  \/ ToggleConflict

(***************************************************************************)
(* The tables of rankings_historico the specifications start from.  Each   *)
(* specification lists the rows its table is made of, dates ascending; the *)
(* query orders by fecha, and rows of one date come in the order of the    *)
(* listing (nothing modelled here reads the place of a row among the rows  *)
(* of its date).  A NULL category is loaded as "".                         *)
(***************************************************************************)
DbRow(f, k, p, c, e, d) ==
  [fecha |-> f, keyword |-> k, posicion |-> p, categoria |-> c,
   es_canibalizacion |-> e, detalle_canibalizacion |-> d]

NoCats == <<Null, Null, Null, Null>>

\* the i-th of n values, counting from the digit of weight w of j
Pick(vals, j, w) == vals[((j \div w) % Len(vals)) + 1]

\* the tables of lo .. hi rows taken from the listing rows
TablesOver(rows, lo, hi) ==
  {[i \in DOMAIN t |-> rows[t[i]]] :
     t \in {u \in UNION {[1..k -> Idx(rows)] : k \in lo..hi} :
              \A a \in DOMAIN u : \A b \in DOMAIN u : a < b => u[a] <= u[b]}}

\* the cannibalization flag varies
RowsSession ==
  [j \in 1..2 |->
     DbRow(1, "k1", <<5>>, NoCats, Pick(<<FALSE, TRUE>>, j - 1, 1), PyNone)]

\* dates, the cannibalization flag and the first category level vary
RowsFilter ==
  [j \in 1..(4 * MaxFecha) |->
     DbRow(((j - 1) \div 4) + 1, "k1", <<5>>,
           <<Pick(<<Null, <<"A">>>>, j - 1, 1), Null, Null, Null>>,
           Pick(<<FALSE, TRUE>>, j - 1, 2), PyNone)]

\* the four category levels vary; two more rows carry the label of the
\* multiselects as the name of their second category
RowsMask ==
  [j \in 1..16 |->
     DbRow(1, "k1", <<5>>,
           <<Pick(<<Null, <<"A">>>>, j - 1, 1), Pick(<<Null, <<"X">>>>, j - 1, 2),
             Pick(<<Null, <<"P">>>>, j - 1, 4), Pick(<<Null, <<"Q">>>>, j - 1, 8)>>,
           FALSE, PyNone)]
  \o << DbRow(1, "k1", <<5>>, <<Null, <<SinCategoria>>, Null, Null>>, FALSE, PyNone),
        DbRow(1, "k1", <<5>>, <<<<"A">>, <<SinCategoria>>, Null, Null>>, FALSE, PyNone) >>

\* dates, keywords and positions vary
RowsStats ==
  [j \in 1..(8 * MaxFecha) |->
     DbRow(((j - 1) \div 8) + 1, Pick(<<"k1", "k2">>, j - 1, 1),
           Pick(<<Null, <<2>>, <<15>>, <<150>>>>, j - 1, 2), NoCats, FALSE, PyNone)]

\* every position up to MaxPos, and the missing one
RowsRango ==
  [j \in 1..(MaxPos + 2) |->
     DbRow(1, "k1", IF j = MaxPos + 2 THEN Null ELSE <<j - 1>>, NoCats, FALSE, PyNone)]

\* the payloads of detalle_canibalizacion
Payloads ==
  << PyNone,
     PyDict(DocEmpty),
     PyDict(Doc({"otro"}, <<>>)),
     PyDict(Doc({"data"}, <<>>)),
     PyDict(Doc({"data"}, <<ItemA>>)),
     PyDict(Doc({"data"}, <<ItemA, ItemB>>)),
     PyDict(Doc({"data"}, <<ItemB, ItemA>>)),
     PyDict(Doc({"data"}, <<ItemNoPos>>)),
     PyDict(Doc({"data"}, <<ItemNoUrl>>)),
     PyDict(Doc({"data"}, <<ItemA, NoItem>>)),
     PyDict(DocList),
     PyStr(""),
     PyStr("{}"),
     PyStr("[1]"),
     PyStr("{\"data\":[{\"pos\":5,\"url\":\"https://x.com/a\"}]}"),
     PyStr("{\"data\":[{\"pos\":5,") >>

RowsConflict ==
  [j \in Idx(Payloads) |-> DbRow(1, "k1", <<5>>, NoCats, TRUE, Payloads[j])]

InitWith(tables) ==
  /\ db \in tables
  /\ cache = <<>>
  /\ session_state = <<>>
  /\ sel = NoSel
  /\ d_range_input = <<>>
  /\ show_conflict = FALSE
  /\ submitted = <<>>
  /\ screen = "none"
  /\ load = NotLoaded
  /\ df = <<>>
  /\ opts = NoOpts
  /\ mask = NoOpts
  /\ d_range = <<>>
  /\ filtered_df = <<>>
  /\ datos_tabla = <<>>
  /\ conflicto = <<>>

Init == InitWith(TablesOver(RowsSession, 0, MaxRows))

InitFilter == InitWith(TablesOver(RowsFilter, 0, MaxRows))

InitMask == InitWith(TablesOver(RowsMask, 0, MaxRows))

InitStats == InitWith(TablesOver(RowsStats, 0, MaxRows))

InitRango == InitWith(TablesOver(RowsRango, 1, 1))

InitConflict == InitWith(TablesOver(RowsConflict, 0, MaxRows))

Spec == Init /\ [][Next]_vars

SpecFilter == InitFilter /\ [][NextFilter]_vars

SpecMask == InitMask /\ [][NextMask]_vars

SpecStats == InitStats /\ [][NextStats]_vars

SpecRango == InitRango /\ [][NextRango]_vars

SpecConflict == InitConflict /\ [][NextConflict]_vars

(***************************************************************************)
(* Properties.                                                             *)
(***************************************************************************)
\* tab 2 was rendered by the last run
Tab2Shown == screen \in Tab2Screens

\* the category value of row i of the table at level n
Cat(i, n) == df[i].categoria[n]

\* the predicate of level n on row i: the selection is empty, or the value
\* is one of its concrete values, or it holds the label and the value is ""
LevelPred(n, i) ==
  \/ sel[n] = {}
  \/ Cat(i, n) \in sel[n] \ {SinCategoria}
  \/ SinCategoria \in sel[n] /\ Cat(i, n) = ""

\* row i is in the product of the four masks of the last run
InCategoryMask(i) == mask[1][i] /\ mask[2][i] /\ mask[3][i] /\ mask[4][i]

\* the rows of the table that satisfy P, as filtered_df lists them
RowsWhere(P(_)) == with_rango(Select(df, [i \in Idx(df) |-> P(i)]))

\* C1: a row is in the category mask iff each of the four level predicates
\* holds for it; with no date or cannibalization filter in use (as in the
\* sessions of SpecMask) the filtered result is exactly these rows, so a row
\* that satisfies only three of the four predicates is excluded.
C1_CategoryMaskIsConjunction ==
  Tab2Shown =>
    /\ \A i \in Idx(df) : InCategoryMask(i) <=> \A n \in Levels : LevelPred(n, i)
    /\ (d_range_input = <<>> /\ ~show_conflict) =>
         filtered_df = RowsWhere(LAMBDA i : \A n \in Levels : LevelPred(n, i))

\* a row that satisfies exactly three of the four level predicates, and no
\* row with its categories is in the filtered result
C1_Witness ==
  /\ Tab2Shown
  /\ \E i \in Idx(df) :
       /\ Cardinality({n \in Levels : LevelPred(n, i)}) = 3
       /\ \A k \in Idx(filtered_df) : filtered_df[k].categoria # df[i].categoria

\* the concrete values present at level n of the table
ConcretePresent(n) == {Cat(i, n) : i \in Idx(df)} \ {"", SinCategoria}

\* C2 as stated: at every level, the empty selection and the selection of all
\* concrete values present give the same mask.
C2_EmptyEqualsAllConcrete ==
  Tab2Shown =>
    \A n \in Levels : get_mask(df, n, {}) = get_mask(df, n, ConcretePresent(n))

\* C2 amended: the empty selection matches every row; it gives the mask of the
\* selection of all concrete values present exactly when no concrete value is
\* present or every row carries one (no row is empty, or named like the
\* label, at that level).
C2_EmptyEqualsAllConcreteIffNoBlank ==
  Tab2Shown =>
    \A n \in Levels :
      /\ sel[n] = {} => \A i \in Idx(df) : mask[n][i]
      /\ (get_mask(df, n, {}) = get_mask(df, n, ConcretePresent(n)))
           <=> (\/ ConcretePresent(n) = {}
                \/ \A i \in Idx(df) : Cat(i, n) \in ConcretePresent(n))

\* the user selected every concrete value of a level whose rows all carry
\* one, and the mask of that level holds every row, as the empty selection's
C2_Witness ==
  /\ Tab2Shown
  /\ Len(df) = 2
  /\ \E n \in Levels :
       /\ sel[n] = ConcretePresent(n)
       /\ sel[n] # {}
       /\ \A i \in Idx(df) : mask[n][i]

\* the rows that pass the masks of the levels above N
PassAbove(N) == {i \in Idx(df) : \A m \in 1..(N - 1) : mask[m][i]}

BucketOf(pos) ==
  IF pos = Null THEN "> 100"
  ELSE CASE pos[1] <= 3 -> "TOP 1-3"
         [] pos[1] \in 4..10 -> "TOP 4-10"
         [] pos[1] \in 11..20 -> "TOP 11-20"
         [] pos[1] \in 21..100 -> "TOP 21-100"
         [] pos[1] > 100 -> "> 100"

\* C7: every row of the result carries the bucket of its position: missing
\* gives '> 100', p <= 3 'TOP 1-3', 4..10 'TOP 4-10', 11..20 'TOP 11-20',
\* 21..100 'TOP 21-100', p > 100 '> 100'; it is one of the five buckets.
C7_RangoIsBucketOfPosition ==
  screen = "results" =>
    \A i \in Idx(filtered_df) :
      /\ filtered_df[i].rango = BucketOf(filtered_df[i].posicion)
      /\ filtered_df[i].rango \in Buckets

\* a position on the upper edge of a bucket was classified
C7_Witness ==
  /\ screen = "results"
  /\ \E i \in Idx(filtered_df) :
       filtered_df[i].posicion = <<100>> /\ filtered_df[i].rango = "TOP 21-100"

\* the date of row i of the table
DateOf(i) == dt_date(df[i].fecha)

\* the cannibalization option is off, or row i is flagged
ConflictOk(i) == show_conflict => df[i].es_canibalizacion

\* C8 as stated: whatever the date input holds, the filtered result is the
\* rows in the category mask, dated within the chosen range (both ends
\* included) and, with the cannibalization option on, flagged.
C8_FilteredWithinRangeAlways ==
  Tab2Shown =>
    filtered_df = RowsWhere(LAMBDA i : /\ InCategoryMask(i)
                                       /\ d_range[1] <= DateOf(i)
                                       /\ DateOf(i) <= d_range[Len(d_range)]
                                       /\ ConflictOk(i))

\* C8 amended: when the date input holds two dates the filtered result is
\* the rows in the category mask, dated start <= d <= end (both included)
\* and, with the cannibalization option on, flagged; when it holds one date
\* (a range being picked) no date filter is applied.
C8_FilteredWithinRangeOfTwoDates ==
  Tab2Shown =>
    /\ Len(d_range) = 2 =>
         filtered_df = RowsWhere(LAMBDA i : /\ InCategoryMask(i)
                                            /\ d_range[1] <= DateOf(i)
                                            /\ DateOf(i) <= d_range[2]
                                            /\ ConflictOk(i))
    /\ Len(d_range) # 2 =>
         filtered_df = RowsWhere(LAMBDA i : InCategoryMask(i) /\ ConflictOk(i))

\* a chosen range of two dates keeps a row dated on its end and drops an
\* earlier row
C8_Witness ==
  /\ Tab2Shown
  /\ d_range_input # <<>>
  /\ Len(d_range) = 2
  /\ \E k \in Idx(filtered_df) : dt_date(filtered_df[k].fecha) = d_range[2]
  /\ \E k \in Idx(filtered_df) : dt_date(filtered_df[k].fecha) = d_range[1]
  /\ \E i \in Idx(df) : DateOf(i) < d_range[1]

\* the dates present in the filtered result
FechasPresentes == {filtered_df[i].fecha : i \in Idx(filtered_df)}

\* the latest date, and the second-latest (the latest when there is one)
D1 == SeqMax(FechasPresentes)

D0 == IF Cardinality(FechasPresentes) > 1 THEN SeqMax(FechasPresentes \ {D1}) ELSE D1

\* the keywords whose rows of date D fall in bucket b
KwEn(b, D) ==
  {filtered_df[i].keyword :
     i \in {j \in Idx(filtered_df) : filtered_df[j].fecha = D /\ filtered_df[j].rango = b}}

\* a count as the table shows it
Signed(sign, n) == IF n > 0 THEN sign \o ToString(n) ELSE "0"

\* row j of the statistics table reports bucket b
Reports(j, b) ==
  /\ datos_tabla[j].Rango = b
  /\ datos_tabla[j].Total = Cardinality(KwEn(b, D1))
  /\ datos_tabla[j].Nuevas = Signed("+", Cardinality(KwEn(b, D1) \ KwEn(b, D0)))
  /\ datos_tabla[j].Perdidas = Signed("-", Cardinality(KwEn(b, D0) \ KwEn(b, D1)))

\* C3 as stated: the statistics table reports new, lost and total for each
\* of the five position buckets.
C3_TableReportsFiveBuckets ==
  screen = "results" =>
    \A b \in {"TOP 1-3", "TOP 4-10", "TOP 11-20", "TOP 21-100", "> 100"} :
      \E j \in Idx(datos_tabla) : Reports(j, b)

\* C3 amended: the statistics table has one row for each of the four buckets
\* 'TOP 1-3', 'TOP 4-10', 'TOP 11-20', 'TOP 21-100' and none for '> 100';
\* the row reports new = keywords of the bucket on D1 and not on D0, lost =
\* keywords of the bucket on D0 and not on D1, total = distinct keywords of
\* the bucket on D1; with one date new and lost are 0 in every row.
C3_TableReportsFourBuckets ==
  screen = "results" =>
    /\ Len(datos_tabla) = 4
    /\ \A b \in {"TOP 1-3", "TOP 4-10", "TOP 11-20", "TOP 21-100"} :
         \E j \in Idx(datos_tabla) : Reports(j, b)
    /\ \A j \in Idx(datos_tabla) : datos_tabla[j].Rango # "> 100"
    /\ D0 = D1 => \A j \in Idx(datos_tabla) :
                    datos_tabla[j].Nuevas = "0" /\ datos_tabla[j].Perdidas = "0"

\* two dates, and a bucket that gained one keyword and lost another
C3_Witness ==
  /\ screen = "results"
  /\ D0 # D1
  /\ \E j \in Idx(datos_tabla) :
       /\ datos_tabla[j].Total = 1
       /\ datos_tabla[j].Nuevas = "+1"
       /\ datos_tabla[j].Perdidas = "-1"

\* the five buckets in the order of the table, '> 100' last
CincoRangos == <<"TOP 1-3", "TOP 4-10", "TOP 11-20", "TOP 21-100", "> 100">>

\* the sum of the bucket totals of date D
SumaTotales(D) ==
  LET F[j \in 0..Len(CincoRangos)] ==
        IF j = 0 THEN 0 ELSE F[j - 1] + Cardinality(KwEn(CincoRangos[j], D))
  IN F[Len(CincoRangos)]

\* the keywords observed on date D
KwDelDia(D) ==
  {filtered_df[i].keyword : i \in {j \in Idx(filtered_df) : filtered_df[j].fecha = D}}

\* C4: on D1 and on D0 no keyword is counted in two different buckets, so
\* the bucket totals of D1 sum to the number of distinct keywords of D1.
C4_BucketsDisjoint ==
  screen = "results" =>
    /\ \A D \in {D1, D0} : \A j, k \in Idx(CincoRangos) :
         j # k => KwEn(CincoRangos[j], D) \cap KwEn(CincoRangos[k], D) = {}
    /\ SumaTotales(D1) = Cardinality(KwDelDia(D1))

\* what the column shows for each payload of Payloads, under the stated rule
\* that a missing key is a parse failure
ConflictoStated ==
  << "", "", "", "",
     "Pos 5: x.com/a",
     "Pos 5: x.com/a | Pos 7: y.com/b",
     "Pos 7: y.com/b | Pos 5: x.com/a",
     "Error formato",
     "Error formato",
     "Error formato",
     "Error formato",
     "", "",
     "Error formato",
     "Pos 5: x.com/a",
     "Error formato" >>

\* what the column shows for each payload of Payloads: an item without
\* 'pos' shows '?', an item without 'url' shows an empty url
ConflictoShown ==
  [ConflictoStated EXCEPT ![8] = "Pos ?: x.com/c", ![9] = "Pos 2: "]

\* the place in Payloads of the payload of row i of the filtered result
PayloadNo(i) ==
  CHOOSE j \in Idx(Payloads) : Payloads[j] = filtered_df[i].detalle_canibalizacion

\* the column was asked for, and the run got as far as building it
ConflictColumnDue == show_conflict /\ screen \in {"results", "exception"}

\* C6 as stated: the column is built without an exception and shows '' for
\* a null or {} payload or one without competing items, 'Error formato' for
\* a malformed JSON string or missing keys, and the rendered items otherwise.
C6_MissingKeysAreErrors ==
  ConflictColumnDue =>
    /\ screen = "results"
    /\ Len(conflicto) = Len(filtered_df)
    /\ \A i \in Idx(filtered_df) : conflicto[i] = ConflictoStated[PayloadNo(i)]

\* C6 amended: limpiar_canibalizacion never raises; it returns '' for a null
\* or empty-string payload, {} and a payload without 'data' or with no
\* items; 'Error formato' for a string that is not JSON, a document that is
\* not an object and an item that is not an object; otherwise the items as
\* 'Pos {pos}: {url without scheme}' joined by ' | ' in payload order, '?'
\* standing for a missing 'pos' and '' for a missing 'url'; the result of a
\* row does not depend on the other rows.
C6_MissingKeysHaveDefaults ==
  ConflictColumnDue =>
    /\ screen = "results"
    /\ Len(conflicto) = Len(filtered_df)
    /\ \A i \in Idx(filtered_df) : conflicto[i] = ConflictoShown[PayloadNo(i)]

\* a row whose payload is not JSON next to a row that renders an item
C6_Witness ==
  /\ ConflictColumnDue
  /\ \E i, k \in Idx(conflicto) :
       /\ filtered_df[i].detalle_canibalizacion.py = "str"
       /\ conflicto[i] = "Error formato"
       /\ conflicto[k] = "Pos 5: x.com/a"

\* the last run computed no filter, table or column
NothingComputed ==
  /\ opts = NoOpts
  /\ mask = NoOpts
  /\ d_range = <<>>
  /\ filtered_df = <<>>
  /\ datos_tabla = <<>>
  /\ conflicto = <<>>

\* C9: a failure of the data source inside load_data does not propagate:
\* the run works on an empty table and ends on the 'no data loaded' warning
\* with no filter, metric or chart computed; the 'no data for this
\* combination' warning is shown exactly when a loaded, non-empty table
\* has an empty filtered result, never after a load failure; a run queries
\* the data source at most once.
C9_LoadFailureShowsNoDataLoaded ==
  /\ screen # "exception"
  /\ load.failed => screen = "no_data_loaded" /\ df = <<>> /\ NothingComputed
  /\ screen = "no_data_loaded" => NothingComputed
  /\ screen = "no_data_combo"
       <=> (load.reached /\ ~load.failed /\ df # <<>> /\ filtered_df = <<>>)
  /\ load.queries <= 1

\* a run whose one query of the data source failed
C9_Witness ==
  /\ load.reached
  /\ load.failed
  /\ load.queries = 1
  /\ screen = "no_data_loaded"

\* the flag password_correct is set in the session
Flag(ss) == "password_correct" \in DOMAIN ss /\ ss["password_correct"] = TRUE

\* the screens of the main application
MainScreens == {"no_data_loaded", "no_data_combo", "results", "exception"}

\* what holds of the flag in every state
FlagInv ==
  /\ "password_correct" \in DOMAIN session_state
       => session_state["password_correct"] \in BOOLEAN
  /\ screen = "none" => "password_correct" \notin DOMAIN session_state
  /\ (load.reached \/ screen \in MainScreens) => Flag(session_state)
  /\ Flag(session_state) => "password_input" \notin DOMAIN session_state

\* what holds of the flag in every step
FlagStep ==
  /\ ("password_correct" \notin DOMAIN session_state
        /\ "password_correct" \in DOMAIN session_state')
       => session_state'["password_correct"] = FALSE
  /\ (~Flag(session_state) /\ Flag(session_state'))
       => submitted' = <<DASHBOARD_PASS>>
  /\ (~Flag(session_state) /\ submitted' # <<DASHBOARD_PASS>>)
       => ~Flag(session_state')
  /\ Flag(session_state) => Flag(session_state')

\* C10: password_correct is a boolean that starts false; it becomes true
\* only in a step that submits the stored secret (a wrong input leaves it
\* false) and never returns to false; load_data and the main application
\* are reached only with the flag true; once the check has succeeded the
\* submitted password is no longer in the session state.
C10_PasswordGate == [] FlagInv /\ [][FlagStep]_vars

\* the secret was submitted, the password left the session state and the
\* run went on to load_data
C10_Witness ==
  /\ submitted = <<DASHBOARD_PASS>>
  /\ Flag(session_state)
  /\ "password_input" \notin DOMAIN session_state
  /\ load.reached

=============================================================================
